---- MODULE Spec2Model ----
(***************************************************************************)
(* Order-execution and risk-control engine of cryptoalgotrading:           *)
(*   riskmanagement.Binance (buy, sell, cancel_order, refresh_balance,     *)
(*   asset_info) and the exit predicates aux.stop_loss /                   *)
(*   aux.trailing_stop_loss.                                               *)
(*                                                                         *)
(* Spec runs refresh_balance as one step between the steps of buy and      *)
(* sell; SpecRefresh runs it as the interpreter does, one get_account call *)
(* and one pass of the loop body at a time.  SpecLimit is the account of   *)
(* the limit-buy example, SpecExit the evaluation of the exit predicates.  *)
(*                                                                         *)
(* Balances and order amounts are fixed-point integers counted in 1/Unit   *)
(* of a coin, the risk fraction is counted in percent.  Python's round()   *)
(* is round-to-nearest; a value that lies exactly halfway between two grid *)
(* points goes to either neighbour, because the binary float that stands   *)
(* for it lies on one side or the other.  The exit predicates are computed *)
(* in binary64 arithmetic on whole-number prices and percentages.          *)
(***************************************************************************)
EXTENDS Integers, Sequences, FiniteSets, TLC

\* ------------------------------------------------------------------ scale
\* Amounts are integers in units of 1/1000 of a coin.
Unit == 10 * 10 * 10

Pow10(n) == IF n <= 0 THEN 1 ELSE IF n = 1 THEN 10 ELSE IF n = 2 THEN 100 ELSE Unit

\* ------------------------------------------------------------ environment
\* The strategy loops that call into one shared Binance account object.
Threads == {"t1", "t2"}

\* The quote currency of every call and the base asset of the traded pair:
\* coin = "BTCUSDT", currency = "USDT", coin.replace(currency, '') = "BTC".
Currency == "USDT"
BaseAsset == "BTC"
Assets == {Currency, BaseAsset}

\* Number of buy/sell calls made during one session.
MaxCalls == 3

\* The balances the exchange account can hold when the session starts.
FreeChoices == {16, 40}
LockedChoices == {0, 16}
BaseFreeChoices == {0, 7}

\* var.risk (in percent) and var.usdt_min.
RiskChoices == {50, 100}
MinChoices == {20}

\* The symbol metadata the exchange reports for the pair:
\* quoteAssetPrecision (decimal places) and the LOT_SIZE stepSize.
SymbolChoices == {[precision |-> 2, lot_size |-> 10],
                  [precision |-> 2, lot_size |-> 1]}

\* Ticks evaluated for one position.
MaxTicks == 4

\* The prices a tick or an entry can have, and the exit percentages
\* (var.stop_loss_prcnt, var.trailing_loss_prcnt).
TickPrices == {63, 90, 100, 105, 110}
EntryPrices == {90, 100}
PctChoices == {10, 30}

\* Limit prices a caller passes to buy (0 = market order), in 1/Unit.
PriceChoices == {0, 2000}

\* Explicit quantities a caller passes to sell (0 = sell everything).
QuantityChoices == {0, 5}

\* Order statuses an exchange response can carry.
Statuses == {"FILLED", "NEW", "PARTIALLY_FILLED", "REJECTED", "CANCELED"}

\* self.coin_precision
coin_precision_USDT == 2

\* ------------------------------------------------------------------ state
VARIABLES
    exch,        \* the exchange account: asset -> [listed, free, locked]
    symbol_info, \* what get_symbol_info reports for the pair
    risk,        \* self.risk, percent
    min_limit,   \* self.min_limit[currency]
    assets,      \* self.assets: asset -> [tracked, available, pending, info]
    pc,          \* thread -> position inside buy/sell
    op,          \* thread -> "buy" | "sell" | "none"
    arg,         \* thread -> price (buy) or quantity (sell) argument
    seen,        \* thread -> the free amounts the refresh of this call read
    cur_balance, \* thread -> local cur_balance of buy
    order,       \* thread -> status of the order the placement call returned
    ret,         \* thread -> what the last finished call returned or raised
    nplaced,     \* thread -> placement calls made by the current/last call
    passed,      \* thread -> both checks of the current/last buy passed
    sent,        \* thread -> the amount passed to the placement call, and the
                 \* ledger's available amount of the asset that pays for it
    ncalls,      \* calls started so far
    balances,    \* thread -> the list get_account returned to the refresh
                 \* this thread is running, while it loops over it
    entry,       \* position: the entry price
    pct,         \* the stop-loss / trailing-stop percentage
    highest,     \* position: the highest price seen since entry
    lastPrice,   \* the price of the latest tick
    ticks,       \* the ticks since entry
    trail,       \* what trailing_stop_loss returned at each tick
    stop,        \* what stop_loss returned at each tick
    epc          \* the strategy loop: "wait" for a tick or "eval"

engineVars == <<exch, symbol_info, risk, min_limit, assets, pc, op, arg, seen,
                cur_balance, order, ret, nplaced, passed, sent, ncalls,
                balances>>

exitVars == <<entry, pct, highest, lastPrice, ticks, trail, stop, epc>>

vars == <<engineVars, exitVars>>

NoInfo == [cached |-> FALSE, precision |-> 0, lot_size |-> 0]
Unlisted == [listed |-> FALSE, free |-> 0, locked |-> 0]
Untracked == [tracked |-> FALSE, available |-> 0, pending |-> 0, info |-> NoInfo]
NoSeen == [a \in Assets |-> 0]
NoRet == [kind |-> "none", detail |-> "none"]
NoSent == [kind |-> "none", amount |-> 0, avail |-> 0]
NoBalances == [a \in Assets |-> Unlisted]

\* -------------------------------------------------------------- arithmetic
\* The grid of round(x, p): multiples of 10^-p, counted in 1/Unit.
Grid(p) == IF p >= 3 THEN 1 ELSE Pow10(3 - p)

\* round(num/den, p) for num >= 0, den > 0, both counted in 1/Unit: the
\* nearest multiple of grid; an exact half goes to either neighbour.
RoundSet(num, den, grid) ==
    LET lo == (num \div (den * grid)) * grid
        rem == num - lo * den
    IN  IF 2 * rem < den * grid THEN {lo}
        ELSE IF 2 * rem > den * grid THEN {lo + grid}
        ELSE {lo, lo + grid}

\* --------------------------------------------------------------- exchange
\* conn.get_account()["balances"]: the assets the exchange lists.
get_account == exch

\* What a placement call can answer: an order status, or an exception.
\* An order fills only when the account can pay for it.
PlaceOutcomes(asset, cost) ==
    {"raise", "NEW", "REJECTED", "CANCELED"}
        \cup (IF cost > 0 /\ exch[asset].listed /\ cost <= exch[asset].free
              THEN {"FILLED", "PARTIALLY_FILLED"} ELSE {})

\* The part of an order the exchange executes for a status.
Executed(status, amount) ==
    IF status = "FILLED" THEN amount
    ELSE IF status = "PARTIALLY_FILLED" THEN amount \div 2
    ELSE 0

\* The exchange account after `pay` of asset `from` was exchanged for `get`
\* of asset `to` (which the exchange lists from then on).
Settle(from, pay, to, get) ==
    [a \in Assets |->
        IF a = from THEN [exch[a] EXCEPT !.free = @ - pay]
        ELSE IF a = to THEN [listed |-> TRUE, free |-> exch[a].free + get,
                             locked |-> exch[a].locked]
        ELSE exch[a]]

\* ----------------------------------------------------------------- ledger
\* init_balance: every listed asset is tracked with empty info.
init_balance(account) ==
    [a \in Assets |->
        IF account[a].listed
        THEN [tracked |-> TRUE, available |-> account[a].free,
              pending |-> account[a].locked, info |-> NoInfo]
        ELSE Untracked]

\* refresh_balance, the loop over the balances returned by get_account:
\* a tracked asset gets the reported amounts and keeps its info, an
\* untracked one (KeyError) is added with empty info.
refresh_balance(ledger, account) ==
    [a \in Assets |->
        IF ~account[a].listed THEN ledger[a]
        ELSE IF ledger[a].tracked
        THEN [ledger[a] EXCEPT !.available = account[a].free,
                               !.pending = account[a].locked]
        ELSE [tracked |-> TRUE, available |-> account[a].free,
              pending |-> account[a].locked, info |-> NoInfo]]

\* asset_info: the dictionary built from get_symbol_info.
asset_info == [cached |-> TRUE, precision |-> symbol_info.precision,
               lot_size |-> symbol_info.lot_size]

\* ------------------------------------------------------------------- init
\* The state after Binance.__init__: the ledger holds what init_balance
\* read from the exchange, no metadata is cached, no call is running.
\* The quote currency is always listed; the base asset is listed only if
\* the account holds some of it.
EngineInit ==
    /\ \E f \in FreeChoices, l \in LockedChoices, b \in BaseFreeChoices :
          exch = [a \in Assets |->
                    IF a = Currency THEN [listed |-> TRUE, free |-> f, locked |-> l]
                    ELSE [listed |-> b > 0, free |-> b, locked |-> 0]]
    /\ symbol_info \in SymbolChoices
    /\ risk \in RiskChoices
    /\ min_limit \in MinChoices
    /\ assets = init_balance(exch)
    /\ pc = [t \in Threads |-> "idle"]
    /\ op = [t \in Threads |-> "none"]
    /\ arg = [t \in Threads |-> 0]
    /\ seen = [t \in Threads |-> NoSeen]
    /\ cur_balance = [t \in Threads |-> 0]
    /\ order = [t \in Threads |-> "none"]
    /\ ret = [t \in Threads |-> NoRet]
    /\ nplaced = [t \in Threads |-> 0]
    /\ passed = [t \in Threads |-> FALSE]
    /\ sent = [t \in Threads |-> NoSent]
    /\ ncalls = 0
    /\ balances = [t \in Threads |-> NoBalances]

\* No position is open and no tick is evaluated.
ExitIdle ==
    /\ entry = 0 /\ pct = 0 /\ highest = 0 /\ lastPrice = 0
    /\ ticks = <<>> /\ trail = <<>> /\ stop = <<>> /\ epc = "off"

Init == EngineInit /\ ExitIdle

\* ------------------------------------------------------------------ calls
Enter(t, kind, a) ==
    /\ pc[t] = "idle"
    /\ ncalls < MaxCalls
    /\ ncalls' = ncalls + 1
    /\ pc' = [pc EXCEPT ![t] = "refresh"]
    /\ op' = [op EXCEPT ![t] = kind]
    /\ arg' = [arg EXCEPT ![t] = a]
    /\ UNCHANGED <<exch, symbol_info, risk, min_limit, assets, seen,
                   cur_balance, order, ret, nplaced, passed, sent>>
    /\ UNCHANGED balances
    /\ UNCHANGED exitVars

\* buy(coin, currency, price) is called.
BuyCall(t) == \E price \in PriceChoices : Enter(t, "buy", price)

\* sell(coin, currency, quantity) is called.
SellCall(t) == \E quantity \in QuantityChoices : Enter(t, "sell", quantity)

\* The call of thread t ends: it returns (True, d), (False, d) or raises.
Leave(t, kind, detail) ==
    /\ pc' = [pc EXCEPT ![t] = "done"]
    /\ ret' = [ret EXCEPT ![t] = [kind |-> kind, detail |-> detail]]

\* The caller has the result in hand; the frame of the call is gone.
Return(t) ==
    /\ pc[t] = "done"
    /\ pc' = [pc EXCEPT ![t] = "idle"]
    /\ op' = [op EXCEPT ![t] = "none"]
    /\ arg' = [arg EXCEPT ![t] = 0]
    /\ seen' = [seen EXCEPT ![t] = NoSeen]
    /\ cur_balance' = [cur_balance EXCEPT ![t] = 0]
    /\ order' = [order EXCEPT ![t] = "none"]
    /\ ret' = [ret EXCEPT ![t] = NoRet]
    /\ nplaced' = [nplaced EXCEPT ![t] = 0]
    /\ passed' = [passed EXCEPT ![t] = FALSE]
    /\ sent' = [sent EXCEPT ![t] = NoSent]
    /\ UNCHANGED <<exch, symbol_info, risk, min_limit, assets, ncalls>>
    /\ UNCHANGED balances
    /\ UNCHANGED exitVars

\* ---------------------------------------------------------------- refresh
\* self.refresh_balance() at the start of buy and sell, run without another
\* thread in between: the balances the exchange reports are written into
\* the ledger.  seen keeps, for the
\* claims, the available quote and base amounts this refresh wrote.
Refresh(t) ==
    /\ pc[t] = "refresh"
    /\ assets' = refresh_balance(assets, get_account)
    /\ seen' = [seen EXCEPT ![t] = [a \in Assets |-> get_account[a].free]]
    /\ pc' = [pc EXCEPT ![t] = IF op[t] = "buy" THEN "check" ELSE "sell"]
    /\ UNCHANGED <<exch, symbol_info, risk, min_limit, op, arg,
                   cur_balance, order, ret, nplaced, passed, sent, ncalls>>
    /\ UNCHANGED balances
    /\ UNCHANGED exitVars

\* -------------------------------------------------------------------- buy
\* cur_balance = assets[currency]['available'] + assets[currency]['pending']
CurBalance(ledger) == ledger[Currency].available + ledger[Currency].pending

\* The threshold of another currency (btc_min) used for the quote currency.
InsufficientFunds_wrong_limit(cur) == cur < min_limit \div 2

\* if cur_balance < self.min_limit[currency]
InsufficientFunds(cur) == cur < min_limit

\* quantity_to_buy = cur_balance * self.risk, as a fraction num/100.
QuantityToBuy(cur) == cur * risk

\* if quantity_to_buy > self.assets[currency]['available']
NoSpace(cur, ledger) == QuantityToBuy(cur) > ledger[Currency].available * 100

\* quoteOrderQty = round(quantity_to_buy, coin_precision[currency])
MarketQuote(cur) == RoundSet(QuantityToBuy(cur), 100, Grid(coin_precision_USDT))

\* quantity = round(quantity_to_buy / price, coin_precision[currency])
LimitQuantity(cur, price) ==
    RoundSet(QuantityToBuy(cur) * (Unit \div 100), price, Grid(coin_precision_USDT))

\* Lines 145-155: read the ledger, threshold check, sizing, budget check.
BuyCheck(t) ==
    /\ pc[t] = "check"
    /\ LET cur == CurBalance(assets) IN
         /\ cur_balance' = [cur_balance EXCEPT ![t] = cur]
         /\ IF InsufficientFunds(cur)
            THEN /\ Leave(t, "fail", "Insufficient funds")
                 /\ UNCHANGED passed
            ELSE IF NoSpace(cur, assets)
            THEN /\ Leave(t, "fail", "Portfolio has no space for new assets")
                 /\ UNCHANGED passed
            ELSE /\ pc' = [pc EXCEPT ![t] = "place"]
                 /\ passed' = [passed EXCEPT ![t] = TRUE]
                 /\ UNCHANGED ret
    /\ UNCHANGED <<exch, symbol_info, risk, min_limit, assets, op, arg, seen,
                   order, nplaced, sent, ncalls>>
    /\ UNCHANGED balances
    /\ UNCHANGED exitVars

\* The except clause tries the placement again instead of returning.
PlaceRaised_retry(t) ==
    /\ pc' = [pc EXCEPT ![t] = "place"]
    /\ UNCHANGED ret

\* Lines 168-169: except Exception as e: return False, {'error': e}
PlaceRaised(t) == Leave(t, "fail", "exception")

\* Lines 157-169: the one placement call inside the try block.  amount is
\* what is passed to the exchange, cost what the order costs in quote.
PlaceBuy(t, kind, amount, cost) ==
    \E outcome \in PlaceOutcomes(Currency, cost) :
        /\ nplaced' = [nplaced EXCEPT ![t] = @ + 1]
        /\ sent' = [sent EXCEPT ![t] = [kind |-> kind, amount |-> amount,
                                        avail |-> assets[Currency].available]]
        /\ IF outcome = "raise"
           THEN /\ PlaceRaised(t)
                /\ UNCHANGED <<exch, order>>
           ELSE /\ order' = [order EXCEPT ![t] = outcome]
                /\ pc' = [pc EXCEPT ![t] = "resolve"]
                /\ exch' = Settle(Currency, Executed(outcome, cost),
                                  BaseAsset, Executed(outcome, IF kind = "market" THEN cost ELSE amount))
                /\ UNCHANGED ret

BuyPlace(t) ==
    /\ pc[t] = "place"
    /\ IF arg[t] = 0
       THEN \E q \in MarketQuote(cur_balance[t]) : PlaceBuy(t, "market", q, q)
       ELSE \E q \in LimitQuantity(cur_balance[t], arg[t]) :
                PlaceBuy(t, "limit", q, (q * arg[t]) \div Unit)
    /\ UNCHANGED <<symbol_info, risk, min_limit, assets, op, arg, seen,
                   cur_balance, passed, ncalls>>
    /\ UNCHANGED balances
    /\ UNCHANGED exitVars

\* Lines 171-177: inspect the status.  For a FILLED order the metadata is
\* looked up (asset_info, a network call that can fail) and stored under the
\* base asset, which raises KeyError when the ledger does not track it.
BuyResolve(t) ==
    /\ pc[t] = "resolve"
    /\ IF order[t] = "FILLED"
       THEN \/ /\ Leave(t, "raise", "asset_info")
               /\ UNCHANGED assets
            \/ /\ ~assets[BaseAsset].tracked
               /\ Leave(t, "raise", "KeyError")
               /\ UNCHANGED assets
            \/ /\ assets[BaseAsset].tracked
               /\ assets' = [assets EXCEPT ![BaseAsset].info = asset_info]
               /\ Leave(t, "ok", "order")
       ELSE /\ Leave(t, "fail", "order")
            /\ UNCHANGED assets
    /\ UNCHANGED <<exch, symbol_info, risk, min_limit, op, arg, seen,
                   cur_balance, order, nplaced, passed, sent, ncalls>>
    /\ UNCHANGED balances
    /\ UNCHANGED exitVars

\* ------------------------------------------------------------------- sell
\* The rounding applied before the modulus is subtracted.
SellQuantity_round_first(ledger) ==
    LET a == ledger[BaseAsset].available
        i == ledger[BaseAsset].info
    IN  {r - (a % i.lot_size) : r \in RoundSet(a, 1, Grid(i.precision))}

\* prec_quantity = round(available - (available % lot_size), precision)
SellQuantity(ledger) ==
    LET a == ledger[BaseAsset].available
        i == ledger[BaseAsset].info
    IN  RoundSet(a - (a % i.lot_size), 1, Grid(i.precision))

\* The try block can compute prec_quantity: the base asset is tracked and
\* its info holds 'lot_size' and 'precision'.
CanSize(ledger) == ledger[BaseAsset].tracked /\ ledger[BaseAsset].info.cached

\* Lines 192-212, after the refresh.
\*  - quantity given: the if is skipped and `return True, sell_order` reads
\*    a local that was never bound (UnboundLocalError);
\*  - the lookup of the base asset or of its info raises KeyError inside
\*    the try: the handler builds its dictionary from prec_quantity, which
\*    was never bound (UnboundLocalError raised out of the handler);
\*  - otherwise one market-sell placement call; its exception is returned
\*    as a failure, any returned order as (True, sell_order).
SellPlace(t) ==
    /\ pc[t] = "sell"
    /\ \/ /\ arg[t] # 0
          /\ Leave(t, "raise", "UnboundLocalError sell_order")
          /\ UNCHANGED <<exch, order, nplaced, sent>>
       \/ /\ arg[t] = 0
          /\ ~CanSize(assets)
          /\ Leave(t, "raise", "UnboundLocalError prec_quantity")
          /\ UNCHANGED <<exch, order, nplaced, sent>>
       \/ /\ arg[t] = 0
          /\ CanSize(assets)
          /\ \E q \in SellQuantity(assets) :
             \E outcome \in PlaceOutcomes(BaseAsset, q) :
                /\ nplaced' = [nplaced EXCEPT ![t] = @ + 1]
                /\ sent' = [sent EXCEPT ![t] = [kind |-> "sell", amount |-> q,
                                                avail |-> assets[BaseAsset].available]]
                /\ IF outcome = "raise"
                   THEN /\ Leave(t, "fail", "exception")
                        /\ UNCHANGED <<exch, order>>
                   ELSE /\ order' = [order EXCEPT ![t] = outcome]
                        /\ exch' = Settle(BaseAsset, Executed(outcome, q),
                                          Currency, Executed(outcome, q))
                        /\ Leave(t, "ok", "order")
    /\ UNCHANGED <<symbol_info, risk, min_limit, assets, op, arg, seen,
                   cur_balance, passed, ncalls>>
    /\ UNCHANGED balances
    /\ UNCHANGED exitVars

\* ----------------------------------------------------------------- cancel
\* A cancellation that books the pending amount of the quote currency back
\* to available in the ledger itself.
CancelOrder_releases(t) ==
    /\ pc[t] = "idle"
    /\ ncalls < MaxCalls
    /\ ncalls' = ncalls + 1
    /\ op' = [op EXCEPT ![t] = "cancel"]
    /\ assets' = [assets EXCEPT ![Currency].available = @ + assets[Currency].pending,
                                ![Currency].pending = 0]
    /\ \E kind \in {"ok", "raise"} : Leave(t, kind, "cancel_order")
    /\ UNCHANGED <<exch, symbol_info, risk, min_limit, arg, seen,
                   cur_balance, order, nplaced, passed, sent>>
    /\ UNCHANGED balances
    /\ UNCHANGED exitVars

\* cancel_order(symbol, order_id): return self.conn.cancel_order(...).  The
\* payload of the exchange is handed back, its exception reaches the
\* caller; the ledger is not touched.
CancelOrder(t) ==
    /\ pc[t] = "idle"
    /\ ncalls < MaxCalls
    /\ ncalls' = ncalls + 1
    /\ op' = [op EXCEPT ![t] = "cancel"]
    /\ \E kind \in {"ok", "raise"} : Leave(t, kind, "cancel_order")
    /\ UNCHANGED <<exch, symbol_info, risk, min_limit, assets, arg, seen,
                   cur_balance, order, nplaced, passed, sent>>
    /\ UNCHANGED balances
    /\ UNCHANGED exitVars

\* ------------------------------------------------------------------- spec
Next ==
    \E t \in Threads :
        \/ BuyCall(t)
        \/ SellCall(t)
        \/ Refresh(t)
        \/ BuyCheck(t)
        \/ BuyPlace(t)
        \/ BuyResolve(t)
        \/ SellPlace(t)
        \/ CancelOrder(t)
        \/ Return(t)

Spec == Init /\ [][Next]_vars

\* --------------------------------------------------------- limit-buy sizing
\* buy(coin, currency, price) is called with the limit price 20000.
LimitBuyCall(t) == Enter(t, "buy", 20000 * Unit)

\* The account of the limit-buy example: 1000 USDT available, none pending,
\* no base asset held, var.risk = 0.1, var.usdt_min = 50, lot size 0.001.
InitLimit ==
    /\ exch = [a \in Assets |->
                 IF a = Currency
                 THEN [listed |-> TRUE, free |-> 1000 * Unit, locked |-> 0]
                 ELSE Unlisted]
    /\ symbol_info = [precision |-> 3, lot_size |-> 1]
    /\ risk = 10
    /\ min_limit = 50 * Unit
    /\ assets = init_balance(exch)
    /\ pc = [t \in Threads |-> "idle"]
    /\ op = [t \in Threads |-> "none"]
    /\ arg = [t \in Threads |-> 0]
    /\ seen = [t \in Threads |-> NoSeen]
    /\ cur_balance = [t \in Threads |-> 0]
    /\ order = [t \in Threads |-> "none"]
    /\ ret = [t \in Threads |-> NoRet]
    /\ nplaced = [t \in Threads |-> 0]
    /\ passed = [t \in Threads |-> FALSE]
    /\ sent = [t \in Threads |-> NoSent]
    /\ ncalls = 0
    /\ balances = [t \in Threads |-> NoBalances]
    /\ ExitIdle

NextLimit ==
    \E t \in Threads :
        \/ LimitBuyCall(t)
        \/ SellCall(t)
        \/ Refresh(t)
        \/ BuyCheck(t)
        \/ BuyPlace(t)
        \/ BuyResolve(t)
        \/ SellPlace(t)
        \/ Return(t)

SpecLimit == InitLimit /\ [][NextLimit]_vars

\* ------------------------------------------------- refresh, step by step
\* refresh_balance as the interpreter runs it: one call to get_account,
\* then one pass of the loop body per reported asset.  Threads take turns
\* between these steps.  The exchange lists the quote currency first.
TryAt(a) == IF a = Currency THEN "try_quote" ELSE "try_base"
ExceptAt(a) == IF a = Currency THEN "except_quote" ELSE "except_base"
ItemAt(p) == IF p \in {"try_quote", "except_quote"} THEN Currency ELSE BaseAsset

\* A list holding the single item the loop body is run for.
OneItem(account, a) == [b \in Assets |-> IF b = a THEN account[a] ELSE Unlisted]

\* Where thread t goes when the loop body has finished for asset a: to the
\* next reported asset, or out of refresh_balance back into buy or sell.
AfterItem(t, a) ==
    IF a = Currency /\ balances[t][BaseAsset].listed THEN TryAt(BaseAsset)
    ELSE IF op[t] = "buy" THEN "check" ELSE "sell"

\* The loop is over: the list is dropped.
EndOfLoop(t, a) ==
    balances' = [balances EXCEPT ![t] =
                    IF AfterItem(t, a) \in {"check", "sell"} THEN NoBalances ELSE @]

\* Line 103: self.conn.get_account()["balances"]
GetAccount(t) ==
    /\ pc[t] = "refresh"
    /\ balances' = [balances EXCEPT ![t] = get_account]
    /\ seen' = [seen EXCEPT ![t] = [a \in Assets |-> get_account[a].free]]
    /\ pc' = [pc EXCEPT ![t] = TryAt(Currency)]
    /\ UNCHANGED <<exch, symbol_info, risk, min_limit, assets, op, arg,
                   cur_balance, order, ret, nplaced, passed, sent, ncalls>>
    /\ UNCHANGED exitVars

\* Lines 108-110: {'available': ..., 'pending': ..., 'info': {}}
NewAsset(item) ==
    [tracked |-> TRUE, available |-> item.free, pending |-> item.locked,
     info |-> NoInfo]

\* Lines 104-107: the try block for one item.  A tracked asset gets the two
\* amounts of the item; for an untracked one the subscript raises KeyError
\* and the thread enters the except clause.
TryItem(t) ==
    /\ pc[t] \in {TryAt(a) : a \in Assets}
    /\ LET a == ItemAt(pc[t]) IN
         IF assets[a].tracked
         THEN /\ assets' = refresh_balance(assets, OneItem(balances[t], a))
              /\ pc' = [pc EXCEPT ![t] = AfterItem(t, a)]
              /\ EndOfLoop(t, a)
         ELSE /\ pc' = [pc EXCEPT ![t] = ExceptAt(a)]
              /\ UNCHANGED <<assets, balances>>
    /\ UNCHANGED <<exch, symbol_info, risk, min_limit, op, arg, seen,
                   cur_balance, order, ret, nplaced, passed, sent, ncalls>>
    /\ UNCHANGED exitVars

\* Lines 108-111: the except clause stores a new entry for the item.
ExceptItem(t) ==
    /\ pc[t] \in {ExceptAt(a) : a \in Assets}
    /\ LET a == ItemAt(pc[t]) IN
         /\ assets' = [assets EXCEPT ![a] = NewAsset(balances[t][a])]
         /\ pc' = [pc EXCEPT ![t] = AfterItem(t, a)]
         /\ EndOfLoop(t, a)
    /\ UNCHANGED <<exch, symbol_info, risk, min_limit, op, arg, seen,
                   cur_balance, order, ret, nplaced, passed, sent, ncalls>>
    /\ UNCHANGED exitVars

NextRefresh ==
    \E t \in Threads :
        \/ BuyCall(t)
        \/ SellCall(t)
        \/ GetAccount(t)
        \/ TryItem(t)
        \/ ExceptItem(t)
        \/ BuyCheck(t)
        \/ BuyPlace(t)
        \/ BuyResolve(t)
        \/ SellPlace(t)
        \/ Return(t)

SpecRefresh == Init /\ [][NextRefresh]_vars

\* ================================================================= floats
\* stop_loss and trailing_stop_loss compute in IEEE-754 binary64.  A value
\* is [m, e]: the natural number m, written as its bits with the lowest
\* bit first and the highest bit 1 (<<>> is zero), times 2^e.
RECURSIVE NatBits(_)
NatBits(n) == IF n = 0 THEN <<>> ELSE <<n % 2>> \o NatBits(n \div 2)

RECURSIVE Zeros(_)
Zeros(n) == IF n <= 0 THEN <<>> ELSE <<0>> \o Zeros(n - 1)

\* The bits without the zeros above the highest 1.
RECURSIVE Trim(_)
Trim(b) == IF b = <<>> \/ b[Len(b)] = 1 THEN b ELSE Trim(SubSeq(b, 1, Len(b) - 1))

\* b * k + carry for a small natural k.
RECURSIVE MulBits(_, _, _)
MulBits(b, k, carry) ==
    IF b = <<>> THEN NatBits(carry)
    ELSE LET v == Head(b) * k + carry
         IN  <<v % 2>> \o MulBits(Tail(b), k, v \div 2)

\* b + 1.
RECURSIVE IncBits(_)
IncBits(b) ==
    IF b = <<>> THEN <<1>>
    ELSE IF Head(b) = 0 THEN <<1>> \o Tail(b)
    ELSE <<0>> \o IncBits(Tail(b))

\* a - b - borrow for bit strings of the same length, a >= b.
RECURSIVE SubBits(_, _, _)
SubBits(a, b, borrow) ==
    IF a = <<>> THEN <<>>
    ELSE LET v == Head(a) - Head(b) - borrow
         IN  <<IF v < 0 THEN v + 2 ELSE v>>
                 \o SubBits(Tail(a), Tail(b), IF v < 0 THEN 1 ELSE 0)

\* a <= b for trimmed bit strings.
RECURSIVE LeBits(_, _)
LeBits(a, b) ==
    IF Len(a) # Len(b) THEN Len(a) < Len(b)
    ELSE IF a = <<>> THEN TRUE
    ELSE IF a[Len(a)] # b[Len(b)] THEN a[Len(a)] < b[Len(b)]
    ELSE LeBits(Trim(SubSeq(a, 1, Len(a) - 1)), Trim(SubSeq(b, 1, Len(b) - 1)))

\* Width of the binary64 significand.
Precision == 52 + 1

\* The binary64 nearest to m * 2^e, ties to the even significand.
RoundDouble(m, e) ==
    IF Len(m) <= Precision THEN [m |-> m, e |-> e]
    ELSE LET s == Len(m) - Precision
             kept == SubSeq(m, s + 1, Len(m))
             half == m[s] = 1
             sticky == \E i \in 1..(s - 1) : m[i] = 1
             up == half /\ (sticky \/ kept[1] = 1)
         IN  [m |-> IF up THEN IncBits(kept) ELSE kept, e |-> e + s]

\* float(n) for a natural number below 2^31.
DoubleOfNat(n) == [m |-> NatBits(n), e |-> 0]

RECURSIVE HexBits(_)
HexBits(h) ==
    IF h = <<>> THEN <<>>
    ELSE HexBits(Tail(h)) \o <<Head(h) % 2, (Head(h) \div 2) % 2,
                               (Head(h) \div 4) % 2, Head(h) \div 8>>

\* The literal 0.01: 0x1.47ae147ae147bp-7 = 0x147ae147ae147b * 2^-59.
Double_0_01 ==
    [m |-> Trim(HexBits(<<1, 4, 7, 10, 14, 1, 4, 7, 10, 14, 1, 4, 7, 11>>)),
     e |-> 0 - 59]

\* n * x for a natural number n and a double x.
MulNat(n, x) ==
    IF n = 0 \/ x.m = <<>> THEN [m |-> <<>>, e |-> 0]
    ELSE RoundDouble(MulBits(x.m, n, 0), x.e)

\* 1 - x for a double 0 <= x < 1.
OneMinus(x) ==
    IF x.m = <<>> THEN DoubleOfNat(1)
    ELSE LET k == 0 - x.e
             one == Zeros(k) \o <<1>>
             sub == x.m \o Zeros(k + 1 - Len(x.m))
         IN  RoundDouble(Trim(SubBits(one, sub, 0)), x.e)

\* n <= x for a natural number n and a double x.
NatLeDouble(n, x) ==
    IF x.e <= 0 THEN LeBits(Zeros(0 - x.e) \o NatBits(n), x.m)
    ELSE LeBits(NatBits(n), Zeros(x.e) \o x.m)

\* =========================================================== exit evaluator
\* higher * (1 - (percentage * 0.01)), each operation rounded to binary64.
\* The prices and the percentage are whole numbers.
trailing_stop_loss(last, higher, percentage) ==
    NatLeDouble(last, MulNat(higher, OneMinus(MulNat(percentage, Double_0_01))))

\* entry_point_x * (1 - (percentage * 0.01)), each operation rounded.
stop_loss(last, entry_point_x, percentage) ==
    NatLeDouble(last, MulNat(entry_point_x, OneMinus(MulNat(percentage, Double_0_01))))

Max(a, b) == IF a >= b THEN a ELSE b

\* A tick arrives: the caller keeps the highest price seen since entry.
Tick ==
    /\ epc = "wait"
    /\ Len(ticks) < MaxTicks
    /\ \E price \in TickPrices :
        /\ lastPrice' = price
        /\ highest' = Max(highest, price)
        /\ ticks' = Append(ticks, price)
    /\ epc' = "eval"
    /\ UNCHANGED <<entry, pct, trail, stop>>
    /\ UNCHANGED engineVars

\* The caller evaluates both exit predicates on the tick.
Evaluate ==
    /\ epc = "eval"
    /\ trail' = Append(trail, trailing_stop_loss(lastPrice, highest, pct))
    /\ stop' = Append(stop, stop_loss(lastPrice, entry, pct))
    /\ epc' = "wait"
    /\ UNCHANGED <<entry, pct, highest, lastPrice, ticks>>
    /\ UNCHANGED engineVars

\* A position was just opened at the entry price; the account is idle.
InitExit ==
    /\ exch = [a \in Assets |-> [listed |-> TRUE, free |-> 0, locked |-> 0]]
    /\ symbol_info = [precision |-> 2, lot_size |-> 10]
    /\ risk = 50
    /\ min_limit = 20
    /\ assets = init_balance(exch)
    /\ pc = [t \in Threads |-> "idle"]
    /\ op = [t \in Threads |-> "none"]
    /\ arg = [t \in Threads |-> 0]
    /\ seen = [t \in Threads |-> NoSeen]
    /\ cur_balance = [t \in Threads |-> 0]
    /\ order = [t \in Threads |-> "none"]
    /\ ret = [t \in Threads |-> NoRet]
    /\ nplaced = [t \in Threads |-> 0]
    /\ passed = [t \in Threads |-> FALSE]
    /\ sent = [t \in Threads |-> NoSent]
    /\ ncalls = 0
    /\ balances = [t \in Threads |-> NoBalances]
    /\ entry \in EntryPrices
    /\ pct \in PctChoices
    /\ highest = entry
    /\ lastPrice = entry
    /\ ticks = <<>> /\ trail = <<>> /\ stop = <<>>
    /\ epc = "wait"

NextExit == Tick \/ Evaluate

SpecExit == InitExit /\ [][NextExit]_vars

\* ================================================================= claims
Busy(t) == pc[t] \in {"place", "resolve", "done"}

\* C1: two overlapping buys that both read the same available balance B
\* (pending 0) and whose market orders both filled were passed quote
\* amounts that sum to at most B x r.
C1_ConcurrentBuysWithinBudget ==
    \A t1, t2 \in Threads :
        ( /\ t1 # t2
          /\ ncalls = 2
          /\ op[t1] = "buy" /\ op[t2] = "buy"
          /\ sent[t1].kind = "market" /\ sent[t2].kind = "market"
          /\ order[t1] = "FILLED" /\ order[t2] = "FILLED"
          /\ seen[t1][Currency] = seen[t2][Currency]
          /\ assets[Currency].pending = 0 )
        => (sent[t1].amount + sent[t2].amount) * 100 <= seen[t1][Currency] * risk

C3_MarketQuoteWithinAvailable ==
    \A t \in Threads :
        sent[t].kind = "market" => sent[t].amount <= seen[t][Currency]

\* The lot grid is representable at the precision: L is a multiple of 10^-p.
LotOnGrid == symbol_info.lot_size % Grid(symbol_info.precision) = 0

\* C4 as stated: the quantity sell submits is at most the available
\* quantity Q and a multiple of the lot size L, for every L and precision.
C4_SellQuantityOnLotGrid ==
    \A t \in Threads :
        sent[t].kind = "sell"
        => /\ sent[t].amount <= sent[t].avail
           /\ sent[t].amount % symbol_info.lot_size = 0

\* C4 amended: when L is a multiple of 10^-p, the quantity sell submits is
\* at most Q and a multiple of L (the rounding follows the subtraction).
C4_SellQuantityOnRepresentableLotGrid ==
    \A t \in Threads :
        (sent[t].kind = "sell" /\ LotOnGrid)
        => /\ sent[t].amount <= sent[t].avail
           /\ sent[t].amount % symbol_info.lot_size = 0

C4_Witness ==
    \E t \in Threads :
        /\ sent[t].kind = "sell" /\ LotOnGrid
        /\ sent[t].amount > 0
        /\ sent[t].avail % symbol_info.lot_size # 0

\* C7: once the placement call of a buy has returned an order, the buy
\* returns (True, order) if and only if the status is FILLED, and
\* (False, order) for every other status.
C7_SuccessIffFilled ==
    \A t \in Threads :
        (op[t] = "buy" /\ pc[t] = "done" /\ order[t] # "none")
        => /\ (ret[t].kind = "ok") <=> (order[t] = "FILLED")
           /\ order[t] # "FILLED" => ret[t] = [kind |-> "fail", detail |-> "order"]

\* C8: sell returns a pair and never raises.
C8_SellNeverRaises ==
    \A t \in Threads : op[t] = "sell" => ret[t].kind # "raise"

\* C9: no fault after the refresh is raised out of buy.
C9_BuyNeverRaises ==
    \A t \in Threads : op[t] = "buy" => ret[t].kind # "raise"

\* C10: a call makes at most one placement call, and a buy whose checks
\* passed has made exactly one when it ends (none when a check failed).
C10_OnePlacement ==
    \A t \in Threads :
        /\ nplaced[t] <= 1
        /\ (op[t] = "buy" /\ pc[t] \in {"resolve", "done"})
           => nplaced[t] = (IF passed[t] THEN 1 ELSE 0)

C10_Witness ==
    \E t, u \in Threads :
        /\ op[t] = "buy" /\ pc[t] = "done" /\ passed[t]
        /\ ret[t] = [kind |-> "fail", detail |-> "exception"]
        /\ nplaced[t] = 1
        /\ op[u] = "sell" /\ pc[u] = "done" /\ nplaced[u] = 1

\* The highest of the entry price and the first i ticks.
RECURSIVE RunMax(_)
RunMax(i) == IF i = 0 THEN entry ELSE Max(RunMax(i - 1), ticks[i])

\* C5: stop_loss(last, entry, pct) is true exactly when
\* last <= entry * (1 - pct/100): true at the boundary, false above it.
C5_StopLossExactlyAtOrBelowBoundary ==
    \A i \in 1..Len(stop) :
        stop[i] <=> (ticks[i] * 100 <= entry * (100 - pct))

\* The ticks, percentage and entry price of the worked example.
IsExample == entry = 100 /\ pct = 10 /\ ticks = <<100, 110, 105, 90>>

\* The worked example: neither predicate fires at 100, 110 or 105, both
\* fire at 90.
ExampleFiresAt90 ==
    (IsExample /\ Len(trail) = 4)
    => /\ trail = <<FALSE, FALSE, FALSE, TRUE>>
       /\ stop = <<FALSE, FALSE, FALSE, TRUE>>

\* C6: with highest := max(highest, last) before each evaluation,
\* trailing_stop_loss fires at a tick exactly when
\* last <= (running maximum since entry) * (1 - pct/100), and the worked
\* example fires only at 90.
C6_TrailingFiresExactlyBelowRunningMax ==
    /\ \A i \in 1..Len(trail) :
          trail[i] <=> (ticks[i] * 100 <= RunMax(i) * (100 - pct))
    /\ ExampleFiresAt90

\* (available x r) / price rounded down to a multiple of the lot size.
FloorToLot(available, price) ==
    LET lot == symbol_info.lot_size
    IN  ((available * risk * (Unit \div 100)) \div (price * lot)) * lot

\* C11: the base quantity a limit buy passes to the placement call is
\* (available x r) / price rounded down to the nearest multiple of the lot
\* size; in the example (1000 available, r = 0.1, price 20000, lot 0.001)
\* it is 0.005.
C11_LimitQuantityRoundedDownToLot ==
    \A t \in Threads :
        sent[t].kind = "limit"
        => sent[t].amount = FloorToLot(seen[t][Currency], arg[t])

\* C12: two sell calls (quantity omitted) in flight at the same time on the
\* base asset, both of which read the same available quantity Q at their
\* start, pass to the market-sell placement calls quantities that sum to at
\* most Q.  (Lot sizes the precision cannot represent are left to C4.)
C12_ConcurrentSellsWithinAvailable ==
    \A t1, t2 \in Threads :
        ( /\ t1 # t2
          /\ LotOnGrid
          /\ op[t1] = "sell" /\ op[t2] = "sell"
          /\ sent[t1].kind = "sell" /\ sent[t2].kind = "sell"
          /\ seen[t1][BaseAsset] = seen[t2][BaseAsset] )
        => sent[t1].amount + sent[t2].amount <= seen[t1][BaseAsset]

\* C13: each call runs refresh, threshold check, budget check, placement
\* in this order: a buy that made a placement call passed both checks, and
\* what the checks and the sizing read from the ledger is what the refresh
\* of the same call wrote there (cur_balance is the available and pending
\* amount this refresh read, the quantity of a sell is cut from the
\* available base amount this refresh read).
C13_ChecksReadOwnRefresh ==
    \A t \in Threads :
        /\ (op[t] = "buy" /\ nplaced[t] > 0) => passed[t]
        /\ (op[t] = "buy" /\ Busy(t))
           => cur_balance[t] = seen[t][Currency] + exch[Currency].locked
        /\ sent[t].kind = "sell" => sent[t].avail = seen[t][BaseAsset]

\* Thread t is inside the loop of refresh_balance.
InLoop(t) == pc[t] \in {TryAt(a) : a \in Assets} \cup {ExceptAt(a) : a \in Assets}

\* What the exchange reported for asset a to the refresh_balance thread t
\* is running: the answer of get_account.
Reported(t, a) == IF InLoop(t) THEN balances[t][a] ELSE get_account[a]

\* Thread t takes a step of refresh_balance that writes the ledger.
RefreshStep(t) == (pc[t] = "refresh" \/ InLoop(t)) /\ pc'[t] # pc[t]

\* C14: the available and pending amounts of the ledger are never negative
\* and are what init_balance read from the exchange; a step that changes
\* one of them is a step of refresh_balance and writes the amounts the
\* exchange reported to it.  No step of buy, sell or cancel_order changes
\* them.
C14_AmountsWrittenOnlyByRefresh ==
    /\ \A a \in Assets : assets[a].tracked
            => assets[a].available = exch[a].free /\ assets[a].pending = exch[a].locked
    /\ [](\A a \in Assets : assets[a].available >= 0 /\ assets[a].pending >= 0)
    /\ [][\A a \in Assets :
            (assets'[a].available # assets[a].available
                \/ assets'[a].pending # assets[a].pending)
            => \E t \in Threads :
                  /\ RefreshStep(t)
                  /\ Reported(t, a).listed
                  /\ assets'[a].available = Reported(t, a).free
                  /\ assets'[a].pending = Reported(t, a).locked]_vars

\* A filled buy, a sell and a cancellation have finished and the quote
\* amount of the ledger is still the one of the last refresh.
C14_Witness ==
    \E t, u \in Threads :
        /\ op[t] = "buy" /\ ret[t] = [kind |-> "ok", detail |-> "order"]
        /\ op[u] \in {"sell", "cancel"} /\ pc[u] = "done"
        /\ assets[Currency].available # exch[Currency].free

\* Thread t evaluates line 173 in this step: asset_info, and with it
\* conn.get_symbol_info, is called for the pair.
FetchStep(t) == pc[t] = "resolve" /\ order[t] = "FILLED" /\ pc'[t] = "done"

\* C15: once the metadata of the base asset is cached in the ledger, no
\* step changes it and no step fetches it from the exchange again.
C15_MetadataFetchedOnce ==
    [][assets[BaseAsset].info.cached
        => /\ assets'[BaseAsset].info = assets[BaseAsset].info
           /\ \A t \in Threads : ~FetchStep(t)]_vars

\* Thread t takes a step of the loop / the last step of its refresh.
LoopStep(t) == InLoop(t) /\ pc'[t] # pc[t]
RefreshCompletes(t) == InLoop(t) /\ pc'[t] \in {"check", "sell"}

\* No step removes a tracked asset.
TrackedOnlyGrows ==
    [][\A a \in Assets : assets[a].tracked => assets'[a].tracked]_vars

\* A step of refresh_balance leaves the info of a tracked asset as it is
\* and adds an untracked asset with empty info.
RefreshKeepsInfo ==
    [][\A t \in Threads : LoopStep(t) =>
          \A a \in Assets :
             /\ assets[a].tracked => assets'[a].info = assets[a].info
             /\ (~assets[a].tracked /\ assets'[a].tracked) => assets'[a].info = NoInfo]_vars

\* When a refresh_balance completes, every asset of the list it got from
\* the exchange is tracked with the free and locked amounts of that list.
RefreshedAmountsAreReported ==
    [][\A t \in Threads : RefreshCompletes(t) =>
          \A a \in Assets : balances[t][a].listed =>
             /\ assets'[a].tracked
             /\ assets'[a].available = balances[t][a].free
             /\ assets'[a].pending = balances[t][a].locked]_vars

\* C16: after refresh_balance completes every reported asset is tracked
\* with exactly the reported amounts, an untracked asset is added with empty
\* metadata, a tracked asset keeps its metadata, and no tracked asset is
\* ever removed.
C16_RefreshSynchronizesLedger ==
    TrackedOnlyGrows /\ RefreshKeepsInfo /\ RefreshedAmountsAreReported

====
